---------------------------- MODULE Spec2Model ----------------------------
(***************************************************************************)
(* A model of fetch_data.py: the paginated fetcher (fetch_data), the field *)
(* normalizers (format_phone_number, clean_description), the three row     *)
(* mappers, the CSV writer (save_to_csv) and the orchestrator (main).      *)
(*                                                                         *)
(* Python strings are modelled as sequences of one-character strings, so   *)
(* that replace / split / strip / re.sub are computed character by         *)
(* character.  A Python dict is a function whose DOMAIN is its key set.    *)
(***************************************************************************)
EXTENDS Integers, Sequences, FiniteSets, TLC

VARIABLES
    pc,         \* position of main (and of the fetch_data call it is in)
    token,      \* whether SPARELABS_API_TOKEN is set in the environment
    res,        \* index of the export main is working on: 1 riders, 2 drivers, 3 vehicles
    page,       \* fetch_data: local variable page
    all_data,   \* fetch_data: local variable all_data
    response,   \* fetch_data: the response of the last requests.get, or NoResponse
    fetched,    \* main: riders_data, drivers_data, vehicles_data (what fetch_data returned)
    files,      \* the output directory: per export, Absent or the rows of its CSV file
    error,      \* the exception that ended main ("none" while none was raised)
    pagelog,    \* history: the responses received by the fetch_data call in progress or
                \* just returned, until main has written its result
    oplog,      \* history: every request and every file write of the run, in order
    call,       \* harness of the pure functions: which function was applied
    arg,        \* harness of the pure functions: its argument
    ret         \* harness of the pure functions: its result

vars == <<pc, token, res, page, all_data, response, fetched, files, error,
          pagelog, oplog, call, arg, ret>>

mainvars == <<pc, token, res, page, all_data, response, fetched, files, error,
              pagelog, oplog>>

purevars == <<call, arg, ret>>

-----------------------------------------------------------------------------
(* Bounds of the model *)

MaxPages == 2        \* the data source returns a short page by this page at the latest
MaxPhoneLen == 11    \* longest run of body characters of a phone number input
MaxTextLen == 5      \* longest input text of clean_description

-----------------------------------------------------------------------------
(* Python string primitives *)

Whitespace == {" ", "\n"}

\* str.replace(c, "") for a one-character c
Replace(s, c) == SelectSeq(s, LAMBDA x : x # c)

\* str.startswith(c) for a one-character c
StartsWith(s, c) == Len(s) >= 1 /\ s[1] = c

\* s[i:] with a 0-based Python index i >= 0
From(s, i) == SubSeq(s, i + 1, Len(s))

\* s[i:j] with 0-based Python indices 0 <= i <= j
Slice(s, i, j) == SubSeq(s, i + 1, IF j < Len(s) THEN j ELSE Len(s))

RECURSIVE LStrip(_)
LStrip(s) == IF s # <<>> /\ s[1] \in Whitespace THEN LStrip(Tail(s)) ELSE s

RECURSIVE RStrip(_)
RStrip(s) ==
    IF s # <<>> /\ s[Len(s)] \in Whitespace THEN RStrip(SubSeq(s, 1, Len(s) - 1)) ELSE s

\* str.strip()
Strip(s) == RStrip(LStrip(s))

\* str.split(c)[0]: the text before the first c, the whole text when there is none
RECURSIVE SplitFirst(_, _)
SplitFirst(s, c) ==
    IF s = <<>> \/ s[1] = c THEN <<>> ELSE <<s[1]>> \o SplitFirst(Tail(s), c)

\* the first maximal run of non-whitespace characters of an already left-stripped s
RECURSIVE TakeToken(_)
TakeToken(s) ==
    IF s = <<>> \/ s[1] \in Whitespace THEN <<>> ELSE <<s[1]>> \o TakeToken(Tail(s))

\* str.split(): the list of whitespace-separated tokens; only its emptiness and
\* its first element are read by the program
SplitIsEmpty(s) == LStrip(s) = <<>>
SplitHead(s) == TakeToken(LStrip(s))

-----------------------------------------------------------------------------
(* format_phone_number *)

\* the function without the startswith("1") test of line 69
format_phone_number_drops_any_lead(phone_number) ==
    IF phone_number = <<>> THEN <<>>
    ELSE LET stripped == Replace(Replace(Replace(phone_number, "+"), "-"), " ")
             local == IF Len(stripped) = 11 THEN From(stripped, 1) ELSE stripped
         IN  IF Len(local) = 10
             THEN <<"(">> \o Slice(local, 0, 3) \o <<")">> \o Slice(local, 3, 6)
                  \o <<"-">> \o From(local, 6)
             ELSE local

format_phone_number(phone_number) ==
    IF phone_number = <<>> THEN <<>>
    ELSE LET stripped == Replace(Replace(Replace(phone_number, "+"), "-"), " ")
             local == IF Len(stripped) = 11 /\ StartsWith(stripped, "1")
                      THEN From(stripped, 1) ELSE stripped
         IN  IF Len(local) = 10
             THEN <<"(">> \o Slice(local, 0, 3) \o <<")">> \o Slice(local, 3, 6)
                  \o <<"-">> \o From(local, 6)
             ELSE local

-----------------------------------------------------------------------------
(* clean_description *)

\* number of whitespace characters of s from position i on (the greedy \s*)
RECURSIVE WsRun(_, _)
WsRun(s, i) == IF i <= Len(s) /\ s[i] \in Whitespace THEN 1 + WsRun(s, i + 1) ELSE 0

\* the lazy .*?\) from position i on: the position of the first ")" at or after
\* i when no newline comes before it ("." matches no newline), 0 when there is none
RECURSIVE LazyClose(_, _)
LazyClose(s, i) ==
    IF i > Len(s) THEN 0
    ELSE IF s[i] = ")" THEN i
    ELSE IF s[i] = "\n" THEN 0
    ELSE LazyClose(s, i + 1)

\* the match of \s*\(.*?\) anchored at position i: the position of its last
\* character, 0 when the pattern does not match at i
MatchEnd(s, i) ==
    LET j == i + WsRun(s, i)
    IN  IF j <= Len(s) /\ s[j] = "(" THEN LazyClose(s, j + 1) ELSE 0

\* re.sub(pattern, '', s) from position i on: every non-overlapping match,
\* leftmost first, is replaced by the empty string
RECURSIVE SubAll(_, _)
SubAll(s, i) ==
    IF i > Len(s) THEN <<>>
    ELSE LET e == MatchEnd(s, i)
         IN  IF e # 0 THEN SubAll(s, e + 1) ELSE <<s[i]>> \o SubAll(s, i + 1)

\* re.sub with count=1: only the leftmost match is replaced
RECURSIVE SubFirst(_, _)
SubFirst(s, i) ==
    IF i > Len(s) THEN <<>>
    ELSE LET e == MatchEnd(s, i)
         IN  IF e # 0 THEN From(s, e) ELSE <<s[i]>> \o SubFirst(s, i + 1)

clean_description_first_only(text) ==
    Strip(SplitFirst(Strip(SubFirst(text, 1)), ";"))

clean_description(text) ==
    Strip(SplitFirst(Strip(SubAll(text, 1)), ";"))

-----------------------------------------------------------------------------
(* Resource items and the row mappers *)

\* dict.get(key, default)
Get(d, key, default) == IF key \in DOMAIN d THEN d[key] ELSE default

EmptyStr == <<>>
EmptyDict == <<>>

\* what a row mapper does: return a row, or raise
Returned(row) == [exc |-> "none", row |-> row]
Raised(e) == [exc |-> e, row |-> <<>>]

process_rider_row(rider) ==
    LET metadata == Get(rider, "metadata", EmptyDict)
        mailing_address_unit == Get(metadata, "mailing_address_unit", EmptyStr)
        mailing_address == Get(metadata, "mailing_address", EmptyStr)
        full_mailing_address ==
            IF mailing_address_unit # EmptyStr
            THEN mailing_address_unit \o <<"-">> \o mailing_address
            ELSE mailing_address
        phone_number == format_phone_number(Get(rider, "phoneNumber", EmptyStr))
    IN  Returned(<< Get(rider, "externalNumericId", EmptyStr),
                    Get(rider, "firstName", EmptyStr),
                    Get(rider, "lastName", EmptyStr),
                    phone_number,
                    EmptyStr,
                    Get(rider, "email", EmptyStr),
                    full_mailing_address,
                    Get(metadata, "mailing_city", EmptyStr),
                    Get(metadata, "mailing_province_state", EmptyStr),
                    Get(metadata, "mailing_postal_zip_code", EmptyStr) >>)

process_driver_row(driver) ==
    LET metadata == Get(driver, "metadata", EmptyDict)
    IN  Returned(<< Get(metadata, "wtp_driver_id", EmptyStr),
                    Get(driver, "firstName", EmptyStr),
                    Get(driver, "lastName", EmptyStr) >>)

process_vehicle_row(vehicle) ==
    LET metadata == Get(vehicle, "metadata", EmptyDict)
        identifier == Get(vehicle, "identifier", EmptyStr)
    IN  IF SplitIsEmpty(identifier)
        THEN Raised("IndexError")          \* identifier.split()[0] of an empty list
        ELSE Returned(<< SplitHead(identifier),
                         Get(metadata, "contractor_name", EmptyStr),
                         Get(vehicle, "licensePlate", EmptyStr),
                         Get(vehicle, "color", EmptyStr),
                         clean_description(Get(vehicle, "make", EmptyStr)),
                         clean_description(Get(vehicle, "model", EmptyStr)),
                         clean_description(Get(metadata, "vehicle_description", EmptyStr)) >>)

\* the three exports of main, in its order
Riders == 1
Drivers == 2
Vehicles == 3
Exports == {Riders, Drivers, Vehicles}

rider_columns ==
    << "Registration Number", "First Name", "Last Name", "Telephone", "Telephone Ext",
       "Email", "Mailing Address", "City/Town", "Province/State", "Postal/Zip Code" >>

driver_columns == << "Internal Driver ID", "First Name", "Last Name" >>

vehicle_columns ==
    << "Vehicle ID", "Contractor Name", "License Plate", "Color", "Make", "Model",
       "Vehicle Description" >>

\* the column list main passes to save_to_csv for export r
Columns(r) ==
    IF r = Riders THEN rider_columns
    ELSE IF r = Drivers THEN driver_columns
    ELSE vehicle_columns

\* the row mapper main passes to save_to_csv for export r
ProcessRow(r, item) ==
    IF r = Riders THEN process_rider_row(item)
    ELSE IF r = Drivers THEN process_driver_row(item)
    ELSE process_vehicle_row(item)

-----------------------------------------------------------------------------
(* Sample field values *)

FullMetadata ==
    [ mailing_address_unit    |-> <<"4">>,
      mailing_address         |-> <<"1", " ", "M", "a", "i", "n">>,
      mailing_city            |-> <<"W", "p", "g">>,
      mailing_province_state  |-> <<"M", "B">>,
      mailing_postal_zip_code |-> <<"R", "3">>,
      wtp_driver_id           |-> <<"D", "7">>,
      contractor_name         |-> <<"A", "c", "m", "e">>,
      vehicle_description     |-> <<"v", "a", "n", " ", "(", "x", ")">> ]

FullTop ==
    [ externalNumericId |-> <<"R", "1">>,
      firstName         |-> <<"J", "a", "n", "e">>,
      lastName          |-> <<"D", "o", "e">>,
      phoneNumber       |-> <<"+", "1", "2", "0", "4", "5", "5", "5", "1", "2", "3", "4">>,
      email             |-> <<"j", "@", "x">>,
      identifier        |-> <<"V", "9", " ", "b", "u", "s">>,
      licensePlate      |-> <<"P", "1">>,
      color             |-> <<"r", "e", "d">>,
      make              |-> <<"T", "o", "y", " ", "(", "2", "0", ")", ";", " ", "u">>,
      model             |-> <<"C", "a", "m">> ]

\* the dict with the given top-level fields and, when withMeta, a 'metadata'
\* dict with the given metadata fields
MakeItem(top, withMeta, meta) ==
    [ k \in top \cup (IF withMeta THEN {"metadata"} ELSE {}) |->
        IF k = "metadata" THEN [ m \in meta |-> FullMetadata[m] ] ELSE FullTop[k] ]

\* the fields each mapper reads
TopFields(r) ==
    IF r = Riders THEN {"externalNumericId", "firstName", "lastName", "phoneNumber", "email"}
    ELSE IF r = Drivers THEN {"firstName", "lastName"}
    ELSE {"identifier", "licensePlate", "color", "make", "model"}

MetaFields(r) ==
    IF r = Riders THEN {"mailing_address_unit", "mailing_address", "mailing_city",
                        "mailing_province_state", "mailing_postal_zip_code"}
    ELSE IF r = Drivers THEN {"wtp_driver_id"}
    ELSE {"contractor_name", "vehicle_description"}

\* every item in which any subset of the fields read by mapper r is missing
ItemsOf(r) ==
    { MakeItem(top, FALSE, {}) : top \in SUBSET TopFields(r) }
    \cup { MakeItem(top, TRUE, meta) :
             top \in SUBSET TopFields(r), meta \in SUBSET MetaFields(r) }

-----------------------------------------------------------------------------
(* The state of main while a pure function is exercised on its own *)

Absent == [exists |-> FALSE, rows |-> <<>>]
Unset == [set |-> FALSE, data |-> <<>>]
NoBody == [kind |-> "none", value |-> <<>>]
NoResponse == [status |-> 0, body |-> NoBody]
NotCalled == <<"not called">>

MainIdle ==
    /\ pc = "idle"
    /\ token = TRUE
    /\ res = Riders
    /\ page = 1
    /\ all_data = <<>>
    /\ response = NoResponse
    /\ fetched = [r \in Exports |-> Unset]
    /\ files = [r \in Exports |-> Absent]
    /\ error = "none"
    /\ pagelog = <<>>
    /\ oplog = <<>>

PureIdle ==
    /\ call = "idle"
    /\ arg = <<>>
    /\ ret = NotCalled

-----------------------------------------------------------------------------
(* format_phone_number applied to bounded inputs *)

PhoneLeads == { <<>>, <<"+">>, <<"1">>, <<"+", "1">>, <<"2">>, <<"x">>, <<" ">> }
PhoneOdd == {"x", "-", " ", "+", "1"}

\* n characters "2", the k-th replaced by c (none when k = 0)
PhoneBody(n, k, c) == [i \in 1..n |-> IF i = k THEN c ELSE "2"]

PhoneInputs ==
    { lead \o PhoneBody(n, k, c) :
        lead \in PhoneLeads,
        n \in 0..MaxPhoneLen, k \in 0..MaxPhoneLen, c \in PhoneOdd }

InitPhone ==
    /\ MainIdle
    /\ call = "idle"
    /\ arg \in PhoneInputs
    /\ ret = NotCalled

CallFormatPhone ==
    /\ call = "idle"
    /\ call' = "format_phone_number"
    /\ ret' = format_phone_number(arg)
    /\ UNCHANGED <<arg, mainvars>>

NextPhone == CallFormatPhone

SpecPhone == InitPhone /\ [][NextPhone]_vars

-----------------------------------------------------------------------------
(* clean_description applied to bounded inputs *)

TextAlphabet == {"a", " ", "(", ")", ";", "\n"}

Texts == UNION { [1..n -> TextAlphabet] : n \in 0..MaxTextLen }

InitClean ==
    /\ MainIdle
    /\ call = "idle"
    /\ arg \in Texts
    /\ ret = NotCalled

CallCleanDescription ==
    /\ call = "idle"
    /\ call' = "clean_description"
    /\ ret' = clean_description(arg)
    /\ UNCHANGED <<arg, mainvars>>

NextClean == CallCleanDescription

SpecClean == InitClean /\ [][NextClean]_vars

-----------------------------------------------------------------------------
(* The row mappers applied to items with missing fields *)

InitRow ==
    /\ MainIdle
    /\ call = "idle"
    /\ \E r \in Exports : arg \in { [export |-> r, item |-> it] : it \in ItemsOf(r) }
    /\ ret = NotCalled

CallProcessRow ==
    /\ call = "idle"
    /\ call' = "process_row"
    /\ ret' = ProcessRow(arg.export, arg.item)
    /\ UNCHANGED <<arg, mainvars>>

NextRow == CallProcessRow

SpecRow == InitRow /\ [][NextRow]_vars

-----------------------------------------------------------------------------
(* The HTTP API as fetch_data sees it *)

PageSize == 50       \* 'limit': 50, and the 50 of lines 37 and 53

Digit == <<"0", "1", "2", "3", "4", "5", "6", "7", "8", "9">>

RECURSIVE NumStr(_)
NumStr(n) == IF n < 10 THEN <<Digit[n + 1]>> ELSE NumStr(n \div 10) \o <<Digit[(n % 10) + 1]>>

\* the i-th record of a collection: odd ones carry a 'metadata' dict, even ones
\* none; each carries its own number in its ids
ServerItem(i) ==
    IF i % 2 = 1
    THEN [ externalNumericId |-> <<"R">> \o NumStr(i),
           firstName         |-> <<"J">>,
           identifier        |-> <<"V">> \o NumStr(i) \o <<" ", "b">>,
           make              |-> <<"T", " ", "(", "x", ")">>,
           metadata          |-> [ mailing_address_unit |-> <<"4">>,
                                   mailing_address      |-> <<"M">>,
                                   wtp_driver_id        |-> <<"D">> ] ]
    ELSE [ externalNumericId |-> <<"R">> \o NumStr(i),
           lastName          |-> <<"D">>,
           identifier        |-> <<"V">> \o NumStr(i) ]

WithoutField(item, f) == [k \in DOMAIN item \ {f} |-> item[k]]

\* the n records after the first skip ones; with gap, the second of them
\* comes without its 'identifier'
PageItems(skip, n, gap) ==
    [k \in 1..n |-> IF gap /\ k = 2 THEN WithoutField(ServerItem(skip + k), "identifier")
                    ELSE ServerItem(skip + k)]

\* JSON values
JNull == [t |-> "null", v |-> <<>>]
JNumber == [t |-> "number", v |-> <<7>>]
JObject(f) == [t |-> "object", v |-> f]
JArray(seq) == [t |-> "array", v |-> seq]

\* response bodies: no bytes at all, text that is no JSON, or a JSON document
EmptyBody == [kind |-> "empty", value |-> <<>>]
TextBody == [kind |-> "text", value |-> <<>>]
JsonBody(j) == [kind |-> "json", value |-> j]

DataBody(list) == JsonBody(JObject([data |-> JArray(list)]))
NullDataBody == JsonBody(JObject([data |-> JNull]))
OtherBody == JsonBody(JObject([message |-> JNumber]))
EmptyObjectBody == JsonBody(JObject(<<>>))

Resp(status, body) == [status |-> status, body |-> body]

\* the page lengths the data source may answer page p with: a full page only
\* before page MaxPages
PageLens(p) == {0, PageSize - 1} \cup (IF p < MaxPages THEN {PageSize} ELSE {})

\* the kinds of answer the API may give to the request for page p: a status
\* and a body, which is a 'data' list of n records or one of the other bodies
Answer(status, body, n, gap) == [status |-> status, body |-> body, n |-> n, gap |-> gap]

Answers(p) ==
    { Answer(200, "list", n, FALSE) : n \in PageLens(p) }
    \cup { Answer(200, "list", PageSize - 1, TRUE) }
    \cup { Answer(200, b, 0, FALSE) :
             b \in {"empty", "text", "empty object", "other object", "null data",
                    "null", "number"} }
    \cup { Answer(300, "list", 1, FALSE), Answer(404, "text", 0, FALSE),
           Answer(500, "other object", 0, FALSE) }

\* the response of kind a to a request with offset skip
ResponseOf(a, skip) ==
    Resp(a.status,
         IF a.body = "list" THEN DataBody(PageItems(skip, a.n, a.gap))
         ELSE IF a.body = "empty" THEN EmptyBody
         ELSE IF a.body = "text" THEN TextBody
         ELSE IF a.body = "empty object" THEN EmptyObjectBody
         ELSE IF a.body = "other object" THEN OtherBody
         ELSE IF a.body = "null data" THEN NullDataBody
         ELSE IF a.body = "null" THEN JsonBody(JNull)
         ELSE JsonBody(JNumber))

-----------------------------------------------------------------------------
(* fetch_data *)

\* params['skip'] of line 37
Skip(p) == (p - 1) * PageSize

\* Response.raise_for_status() raises HTTPError for a 4xx or 5xx status only
RaiseForStatusRaises(status) == status >= 400 /\ status < 600

\* Response.json() raises JSONDecodeError unless the body is a JSON document
JsonRaises(body) == body.kind # "json"

\* the truth value of a parsed JSON document (`not data`)
Truthy(j) ==
    IF j.t = "null" THEN FALSE
    ELSE IF j.t = "number" THEN j.v # <<0>>
    ELSE IF j.t = "object" THEN DOMAIN j.v # {}
    ELSE Len(j.v) > 0

\* line 47 written as an assignment: all_data = data['data']
Extend_overwrites(all, list) == list

\* all_data.extend(data['data']) of line 47
Extend(all, list) == all \o list

\* line 53 with the bound off by one
IsLastPage_off_by_one(list) == Len(list) < PageSize - 1

\* the test of line 53
IsLastPage(list) == Len(list) < PageSize

Continue(all) == [kind |-> "continue", exc |-> "none", all_data |-> all]
Break(all) == [kind |-> "break", exc |-> "none", all_data |-> all]
Raise(e, all) == [kind |-> "raise", exc |-> e, all_data |-> all]

\* lines 39-56, the loop body after the request: what it does with a response
HandleResponse(resp, all) ==
    IF resp.status # 200 /\ RaiseForStatusRaises(resp.status) THEN Raise("HTTPError", all)
    ELSE IF JsonRaises(resp.body) THEN Raise("JSONDecodeError", all)
    ELSE LET data == resp.body.value
         IN  IF ~Truthy(data) THEN Break(all)
             ELSE IF data.t = "number" THEN Raise("TypeError", all)  \* 'data' in 7
             ELSE IF data.t = "array" \/ "data" \notin DOMAIN data.v THEN Break(all)
             ELSE LET list == data.v["data"]
                  IN  IF list.t # "array" THEN Raise("TypeError", all)  \* extend(None)
                      ELSE IF IsLastPage(list.v) THEN Break(Extend(all, list.v))
                      ELSE Continue(Extend(all, list.v))

-----------------------------------------------------------------------------
(* save_to_csv *)

\* lines 91-94: the rows written, and the exception that ended the loop, if
\* any; the loop stops at the first item whose mapper raises
WriteRows(r, items) ==
    LET results == [i \in 1..Len(items) |-> ProcessRow(r, items[i])]
        raising == {i \in 1..Len(items) : results[i].exc # "none"}
        stop == IF raising = {} THEN Len(items) + 1
                ELSE CHOOSE i \in raising : \A j \in raising : i <= j
        mapped == [i \in 1..(stop - 1) |-> results[i].row]
    IN  [rows |-> SelectSeq(mapped, LAMBDA row : row # <<>>),      \* `if row:`
         exc |-> IF raising = {} THEN "none" ELSE results[stop].exc]

\* lines 87-94: the file is opened for writing, the header is written, then the
\* rows; what was written stays in the file when a row mapper raises
save_to_csv(data, r) ==
    LET w == WriteRows(r, data.data)
    IN  [file |-> [exists |-> TRUE, rows |-> <<Columns(r)>> \o w.rows], exc |-> w.exc]

-----------------------------------------------------------------------------
(* main *)

\* a main that guards each export on its own: after a failed fetch it goes on
\* with the next export
MainAfterFetchRaise_next_export(exc, r) ==
    IF r = Vehicles THEN [pc |-> "done", res |-> r, error |-> exc]
    ELSE [pc |-> "call_fetch", res |-> r + 1, error |-> exc]

\* where main goes when the fetch_data call of export r raises: to the handlers
\* of lines 226-229, which log the exception and end the run
MainAfterFetchRaise(exc, r) == [pc |-> "done", res |-> r, error |-> exc]

\* where main goes after the save_to_csv of export r: to the next export, to the
\* end, or, on an exception, to the handlers of lines 226-229
MainAfterSave(exc, r) ==
    IF exc # "none" THEN [pc |-> "done", res |-> r, error |-> exc]
    ELSE IF r = Vehicles THEN [pc |-> "done", res |-> r, error |-> "none"]
    ELSE [pc |-> "call_fetch", res |-> r + 1, error |-> "none"]

Init ==
    /\ pc = "call_fetch"
    /\ token \in BOOLEAN
    /\ res = Riders
    /\ page = 1
    /\ all_data = <<>>
    /\ response = NoResponse
    /\ fetched = [r \in Exports |-> Unset]
    /\ files = [r \in Exports |-> Absent]
    /\ error = "none"
    /\ pagelog = <<>>
    /\ oplog = <<>>
    /\ PureIdle

\* main calls fetch_data (lines 183, 201, 212); lines 23-35
CallFetch ==
    /\ pc = "call_fetch"
    /\ IF ~token
       THEN /\ LET next == MainAfterFetchRaise("ValueError", res)
               IN  pc' = next.pc /\ res' = next.res /\ error' = next.error
            /\ UNCHANGED <<page, all_data>>
       ELSE /\ pc' = "request"
            /\ page' = 1
            /\ all_data' = <<>>
            /\ UNCHANGED <<res, error>>
    /\ UNCHANGED <<token, response, fetched, files, pagelog, oplog, purevars>>

\* lines 37-38: the request for the current page is sent and answered
Request ==
    /\ pc = "request"
    /\ page <= MaxPages
    /\ \E a \in Answers(page) : \E resp \in {ResponseOf(a, Skip(page))} :
          /\ response' = resp
          /\ pagelog' = Append(pagelog, resp)
    /\ oplog' = Append(oplog, [op |-> "request", export |-> res, page |-> page,
                               limit |-> PageSize, skip |-> Skip(page)])
    /\ pc' = "handle"
    /\ UNCHANGED <<token, res, page, all_data, fetched, files, error, purevars>>

\* line 38: the request is sent and requests.get raises (no connection)
RequestFails ==
    /\ pc = "request"
    /\ page <= MaxPages
    /\ oplog' = Append(oplog, [op |-> "request", export |-> res, page |-> page,
                               limit |-> PageSize, skip |-> Skip(page)])
    /\ LET next == MainAfterFetchRaise("ConnectionError", res)
       IN  pc' = next.pc /\ res' = next.res /\ error' = next.error
    /\ UNCHANGED <<token, page, all_data, response, fetched, files, pagelog, purevars>>

\* lines 39-56: the rest of the loop body
HandlePage ==
    /\ pc = "handle"
    /\ LET o == HandleResponse(response, all_data)
           next == MainAfterFetchRaise(o.exc, res)
       IN  /\ all_data' = o.all_data
           /\ IF o.kind = "raise"
              THEN pc' = next.pc /\ res' = next.res /\ error' = next.error
              ELSE /\ pc' = IF o.kind = "break" THEN "fetch_return" ELSE "request"
                   /\ UNCHANGED <<res, error>>
           /\ page' = IF o.kind = "continue" THEN page + 1 ELSE page
    /\ UNCHANGED <<token, response, fetched, files, pagelog, oplog, purevars>>

\* lines 58-59: fetch_data returns {'data': all_data} to main
FetchReturn ==
    /\ pc = "fetch_return"
    /\ fetched' = [fetched EXCEPT ![res] = [set |-> TRUE, data |-> all_data]]
    /\ response' = NoResponse
    /\ pc' = "save"
    /\ UNCHANGED <<token, res, page, all_data, files, error, pagelog, oplog, purevars>>

\* lines 184-197, 202-208, 213-225: save_to_csv, then the next export or the end
Save ==
    /\ pc = "save"
    /\ \E w \in {save_to_csv(fetched[res], res)} :
          LET next == MainAfterSave(w.exc, res)
          IN  /\ files' = [files EXCEPT ![res] = w.file]
              /\ pc' = next.pc
              /\ res' = next.res
              /\ error' = next.error
    /\ oplog' = Append(oplog, [op |-> "write", export |-> res, page |-> 0,
                               limit |-> 0, skip |-> 0])
    /\ pagelog' = <<>>
    /\ UNCHANGED <<token, page, all_data, response, fetched, purevars>>

Next ==
    \/ CallFetch
    \/ Request
    \/ RequestFails
    \/ HandlePage
    \/ FetchReturn
    \/ Save

Spec == Init /\ [][Next]_vars

\* the steps of fetch_data
FetchNext == CallFetch \/ Request \/ RequestFails \/ HandlePage \/ FetchReturn

\* fetch_data is sequential code: while it has a next step it takes it, and the
\* API answers every request (or the request raises)
FairSpec == Spec /\ WF_vars(FetchNext)

-----------------------------------------------------------------------------
(* Properties of fetch_data *)

\* a status 200 response whose body is a JSON object with a 'data' list
IsOkList(resp) ==
    /\ resp.status = 200
    /\ resp.body.kind = "json"
    /\ resp.body.value.t = "object"
    /\ "data" \in DOMAIN resp.body.value.v
    /\ resp.body.value.v["data"].t = "array"

ListOf(resp) == resp.body.value.v["data"].v

AllOkLists(log) == \A i \in 1..Len(log) : IsOkList(log[i])

RECURSIVE ConcatPages(_)
ConcatPages(log) ==
    IF log = <<>> THEN <<>> ELSE ListOf(Head(log)) \o ConcatPages(Tail(log))

RECURSIVE SumOfLengths(_)
SumOfLengths(log) ==
    IF log = <<>> THEN 0 ELSE Len(ListOf(Head(log))) + SumOfLengths(Tail(log))

Last(seq) == seq[Len(seq)]

\* C1: while every response is a status 200 with a 'data' list, no request
\* follows a page of fewer than 50 items, and what fetch_data returns is the
\* concatenation of the fetched pages in fetch order, as many items as the pages
\* hold together.
C1_Concatenation ==
    AllOkLists(pagelog) =>
        /\ \A i \in 1..(Len(pagelog) - 1) : Len(ListOf(pagelog[i])) >= PageSize
        /\ pc = "request" => \A i \in 1..Len(pagelog) : Len(ListOf(pagelog[i])) >= PageSize
        /\ pc = "save" =>
              /\ fetched[res].set
              /\ fetched[res].data = ConcatPages(pagelog)
              /\ Len(fetched[res].data) = SumOfLengths(pagelog)
              /\ pagelog # <<>> /\ Len(ListOf(Last(pagelog))) < PageSize

\* C1 witness: fetch_data returned after a full page and a short page.
C1_Witness ==
    /\ pc = "save"
    /\ Len(pagelog) = 2
    /\ AllOkLists(pagelog)
    /\ Len(fetched[res].data) = 2 * PageSize - 1

RequestOf(r, p) ==
    [op |-> "request", export |-> r, page |-> p, limit |-> PageSize, skip |-> (p - 1) * PageSize]

FullPage(resp) == IsOkList(resp) /\ Len(ListOf(resp)) = PageSize
ShortPage(resp) == IsOkList(resp) /\ Len(ListOf(resp)) < PageSize

\* C2: each request asks for 50 items at offset (page - 1) * 50; page only ever
\* starts at 1 or goes up by one after a page of at least 50 items; after a
\* page of exactly 50 items the next page is requested; and a page of fewer
\* than 50 items ends the loop, after which fetch_data returns.
C2_Termination ==
    /\ [][pc = "request" /\ oplog' # oplog => Last(oplog') = RequestOf(res, page)]_vars
    /\ [][page' # page =>
            \/ pc = "call_fetch" /\ page' = 1
            \/ /\ pc = "handle" /\ pc' = "request" /\ page' = page + 1
               /\ IsOkList(response) /\ Len(ListOf(response)) >= PageSize]_vars
    /\ [][pc = "handle" /\ ShortPage(response) => pc' = "fetch_return" /\ res' = res]_vars
    /\ \A p \in 1..(MaxPages - 1) :
          (pc = "handle" /\ page = p /\ FullPage(response))
          ~> (oplog # <<>> /\ Last(oplog) = RequestOf(res, p + 1))
    /\ (pc = "handle" /\ ShortPage(response)) ~> (pc = "save" /\ fetched[res].set)

\* C2 witness: the drivers fetch returned after its second request, which asked
\* for offset 50 and was answered with a short page.
C2_Witness ==
    /\ pc = "save"
    /\ res = Drivers
    /\ Len(pagelog) = 2
    /\ Last(oplog) = RequestOf(Drivers, 2)
    /\ Last(oplog).skip = 50
    /\ IsOkList(Last(pagelog))
    /\ Len(ListOf(Last(pagelog))) = PageSize - 1

Is2xx(status) == status >= 200 /\ status < 300

\* C3 as stated: after a response with a non-2xx status nothing more is
\* requested, and fetch_data raises a request error instead of parsing the body
\* or returning.
C3_AsClaimed ==
    \A i \in 1..Len(pagelog) :
        ~Is2xx(pagelog[i].status) =>
            /\ i = Len(pagelog)
            /\ pc \in {"handle", "done"}
            /\ pc = "done" => error = "HTTPError"

\* C4 as stated: a status 200 response whose body is absent, empty or
\* malformed ends the pagination, and fetch_data returns the items of the
\* earlier pages without raising.
C4_AsClaimed ==
    (pagelog # <<>> /\ Last(pagelog).status = 200 /\ ~IsOkList(Last(pagelog))
       /\ pc # "handle") =>
        /\ pc \in {"fetch_return", "save"}
        /\ error = "none"
        /\ all_data = ConcatPages(SubSeq(pagelog, 1, Len(pagelog) - 1))

-----------------------------------------------------------------------------
(* Properties of main and save_to_csv *)

\* the operations are in export order, and the file write of an export is its
\* last operation
OrderedOps ==
    \A i \in 1..Len(oplog) : \A j \in (i + 1)..Len(oplog) :
        /\ oplog[i].export <= oplog[j].export
        /\ oplog[i].op = "write" => oplog[i].export < oplog[j].export

\* C5: requests and file writes happen export by export in the order riders,
\* drivers, vehicles, each export's write after all its requests and before
\* anything of the next export; once an export has failed the run is over, and
\* no request and no write is performed any more.
C5_SequentialExports ==
    /\ [](OrderedOps /\ (error # "none" =>
            /\ pc = "done"
            /\ \A i \in 1..Len(oplog) : oplog[i].export <= res
            /\ \A r \in Exports : r > res => ~files[r].exists))
    /\ [][error # "none" => oplog' = oplog /\ files' = files]_vars

\* C5 witness: the drivers fetch failed after the riders export, with its two
\* requests and its write, was complete.
C5_Witness ==
    /\ pc = "done"
    /\ error = "HTTPError"
    /\ res = Drivers
    /\ files[Riders].exists
    /\ Len(oplog) = 5
    /\ oplog[3].op = "write"
    /\ oplog[5] = RequestOf(Drivers, 2)

\* C6 as stated: after a run that failed, every file on disk holds its header
\* and one row per item of its collection, and the files of the failed and
\* the later exports do not exist.
C6_AsClaimed ==
    (pc = "done" /\ error # "none") =>
        \A r \in Exports :
            files[r].exists =>
                /\ r < res
                /\ Len(files[r].rows) = 1 + Len(fetched[r].data)

\* C8 as stated: a written file holds the header and then one row per item of
\* the collection, in collection order, each row as wide as the header (10, 3
\* and 7 cells).
C8_AsClaimed ==
    \A r \in Exports :
        files[r].exists =>
            /\ Len(files[r].rows) = Len(fetched[r].data) + 1
            /\ files[r].rows[1] = Columns(r)
            /\ Len(Columns(r)) = (IF r = Riders THEN 10 ELSE IF r = Drivers THEN 3 ELSE 7)
            /\ \A i \in 1..Len(fetched[r].data) :
                  /\ Len(files[r].rows[i + 1]) = Len(Columns(r))
                  /\ files[r].rows[i + 1] = ProcessRow(r, fetched[r].data[i]).row

-----------------------------------------------------------------------------
(* Properties of format_phone_number *)

PhoneStripped(s) == SelectSeq(s, LAMBDA ch : ch \notin {"+", "-", " "})

DigitChars == {"0", "1", "2", "3", "4", "5", "6", "7", "8", "9"}
AllDigits(s) == \A i \in 1..Len(s) : s[i] \in DigitChars

\* r is "(AAA)PPP-LLLL" for the ten characters d
IsAreaPrefixLine(r, d) ==
    /\ Len(r) = 13
    /\ r[1] = "(" /\ r[5] = ")" /\ r[9] = "-"
    /\ \A i \in 1..3 : r[1 + i] = d[i] /\ r[5 + i] = d[3 + i]
    /\ \A i \in 1..4 : r[9 + i] = d[6 + i]

\* C10 as stated: "" for empty input; otherwise '+', '-' and spaces are removed,
\* a leading "1" is dropped when what remains is 11 digits starting with "1", the
\* result is "(AAA)PPP-LLLL" exactly when it is 10 digits, and in every other
\* case (a result that is not all digits included) the stripped string is
\* returned unchanged.
C10_AsClaimed ==
    call = "format_phone_number" =>
        LET s == PhoneStripped(arg)
            core == IF Len(s) = 11 /\ AllDigits(s) /\ s[1] = "1" THEN Tail(s) ELSE s
        IN  IF arg = <<>> THEN ret = <<>>
            ELSE IF Len(core) = 10 /\ AllDigits(core) THEN IsAreaPrefixLine(ret, core)
            ELSE ret = s

\* C10 amended: "" for empty input; otherwise '+', '-' and spaces are removed, a
\* leading "1" is dropped when what remains has 11 characters and starts with
\* "1", the result is "(AAA)PPP-LLLL" exactly when it has 10 characters, digits
\* or not, and in every other case the result is returned as it is.
C10_FormatPhone ==
    call = "format_phone_number" =>
        LET s == PhoneStripped(arg)
            core == IF Len(s) = 11 /\ s[1] = "1" THEN Tail(s) ELSE s
        IN  IF arg = <<>> THEN ret = <<>>
            ELSE IF Len(core) = 10 THEN IsAreaPrefixLine(ret, core)
            ELSE ret = core /\ (Len(ret) < 9 \/ ret[9] # "-")

\* C10 witness: an input with a "+" and a leading "1", whose 11 stripped
\* characters include a non-digit, was formatted.
C10_Witness ==
    /\ call = "format_phone_number"
    /\ Len(PhoneStripped(arg)) = 11
    /\ Len(arg) > 11
    /\ arg[1] = "+"
    /\ ~AllDigits(PhoneStripped(arg))
    /\ Len(ret) = 13

-----------------------------------------------------------------------------
(* Properties of clean_description *)

\* position j holds a "(" that a ")" closes on the same line
Closable(s, j) ==
    /\ s[j] = "("
    /\ \E k \in (j + 1)..Len(s) :
          /\ s[k] = ")"
          /\ \A m \in (j + 1)..(k - 1) : s[m] \notin {")", "\n"}

CloseOf(s, j) == CHOOSE k \in (j + 1)..Len(s) :
                    s[k] = ")" /\ \A m \in (j + 1)..(k - 1) : s[m] # ")"

\* where the run of whitespace that ends just before position j starts
RunStart(s, j) == CHOOSE w \in 1..j :
                    /\ \A m \in w..(j - 1) : s[m] \in Whitespace
                    /\ (w = 1 \/ s[w - 1] \notin Whitespace)

\* s without its first parenthesized substring and the whitespace before it
WithoutFirstParen(s) ==
    IF \E j \in 1..Len(s) : Closable(s, j)
    THEN LET j == CHOOSE x \in 1..Len(s) :
                     Closable(s, x) /\ \A y \in 1..(x - 1) : ~Closable(s, y)
         IN  SubSeq(s, 1, RunStart(s, j) - 1) \o SubSeq(s, CloseOf(s, j) + 1, Len(s))
    ELSE s

\* s without any of its parenthesized substrings, taken left to right
RECURSIVE WithoutParens(_)
WithoutParens(s) ==
    IF \E j \in 1..Len(s) : Closable(s, j)
    THEN LET j == CHOOSE x \in 1..Len(s) :
                     Closable(s, x) /\ \A y \in 1..(x - 1) : ~Closable(s, y)
         IN  SubSeq(s, 1, RunStart(s, j) - 1)
             \o WithoutParens(SubSeq(s, CloseOf(s, j) + 1, Len(s)))
    ELSE s

\* t is s cut at its first semicolon
IsCutAtSemicolon(t, s) ==
    /\ Len(t) <= Len(s)
    /\ t = SubSeq(s, 1, Len(t))
    /\ \A i \in 1..Len(t) : t[i] # ";"
    /\ (Len(t) < Len(s) => s[Len(t) + 1] = ";")

\* t is s without its leading and trailing whitespace
IsTrimmed(t, s) ==
    /\ (t # <<>> => t[1] \notin Whitespace /\ t[Len(t)] \notin Whitespace)
    /\ \E a \in 0..Len(s) :
          /\ a + Len(t) <= Len(s)
          /\ t = SubSeq(s, a + 1, a + Len(t))
          /\ \A i \in (1..a) \cup ((a + Len(t) + 1)..Len(s)) : s[i] \in Whitespace

\* ret is what cutting body at its first semicolon and trimming gives
IsCutAndTrimmed(r, body) ==
    \E n \in 0..Len(body), m \in 0..Len(body) :
        /\ n + m <= Len(body)
        /\ LET inner == SubSeq(body, n + 1, Len(body) - m)
               cut == CHOOSE c \in 0..Len(inner) : IsCutAtSemicolon(SubSeq(inner, 1, c), inner)
           IN  /\ IsTrimmed(inner, body)
               /\ IsTrimmed(r, SubSeq(inner, 1, cut))

ToyotaExample == <<"T", "o", "y", "o", "t", "a", " ", "(", "2", "0", "2", "0", " ",
                   "m", "o", "d", "e", "l", ")", ";", " ", "u", "s", "e", "d">>

\* C9 as stated: only the first parenthesized substring (with the whitespace
\* before it) is removed and any later one is left in place; then the text is
\* cut at its first semicolon and trimmed.
C9_AsClaimed ==
    call = "clean_description" => IsCutAndTrimmed(ret, WithoutFirstParen(arg))

\* C9 amended: every parenthesized substring (each the shortest run from a "("
\* to the next ")" on the same line, taken left to right) is removed together
\* with the whitespace before it; then the text is cut at its first semicolon
\* and trimmed; "Toyota (2020 model); used" gives "Toyota".
C9_CleanDescription ==
    /\ call = "clean_description" => IsCutAndTrimmed(ret, WithoutParens(arg))
    /\ clean_description(ToyotaExample) = <<"T", "o", "y", "o", "t", "a">>

\* C9 witness: a text with two parenthesized substrings and text between them
\* was cleaned, and both are gone.
C9_Witness ==
    /\ call = "clean_description"
    /\ arg = <<"(", ")", "a", "(", ")">>
    /\ ret = <<"a">>

-----------------------------------------------------------------------------
(* Properties of the row mappers *)

\* the position in the row of each field a mapper copies
RowPosition(r) ==
    IF r = Riders
    THEN [ externalNumericId |-> 1, firstName |-> 2, lastName |-> 3, phoneNumber |-> 4,
           email |-> 6, mailing_city |-> 8, mailing_province_state |-> 9,
           mailing_postal_zip_code |-> 10 ]
    ELSE IF r = Drivers
    THEN [ wtp_driver_id |-> 1, firstName |-> 2, lastName |-> 3 ]
    ELSE [ identifier |-> 1, contractor_name |-> 2, licensePlate |-> 3, color |-> 4,
           make |-> 5, model |-> 6, vehicle_description |-> 7 ]

\* whether item lacks field f (at top level, or in its metadata, or with it)
Lacks(r, item, f) ==
    IF f \in TopFields(r) THEN f \notin DOMAIN item
    ELSE "metadata" \notin DOMAIN item \/ f \notin DOMAIN item["metadata"]

\* C7 as stated: each mapper returns a row for every item, whatever subset of
\* the fields it reads is missing, and the row holds the empty string in the
\* position of each missing field.
C7_AsClaimed ==
    call = "process_row" =>
        /\ ret.exc = "none"
        /\ Len(ret.row) = Len(Columns(arg.export))
        /\ \A f \in DOMAIN RowPosition(arg.export) :
              Lacks(arg.export, arg.item, f) => ret.row[RowPosition(arg.export)[f]] = EmptyStr
        /\ (arg.export = Riders /\ Lacks(Riders, arg.item, "mailing_address_unit")
              /\ Lacks(Riders, arg.item, "mailing_address")) => ret.row[7] = EmptyStr

=============================================================================
